---- MODULE Spec2Model ----
(***************************************************************************)
(* Model of the social-media backend in src/main.py: module start-up       *)
(* (configuration check, database, tables, clients), the user and post     *)
(* CRUD handlers over the two relational tables, the draft endpoint and    *)
(* the image upload endpoint.                                              *)
(*                                                                         *)
(* Optional values (os.getenv results, nullable columns) are encoded as    *)
(* sequences: <<>> is None / NULL, <<v>> is the value v.                   *)
(***************************************************************************)
EXTENDS Integers, Sequences, FiniteSets, TLC

\* ---------------------------------------------------------------- bounds
MaxRequests == 4
MaxId == 2
MaxInflight == 2

\* ---------------------------------------------------------------- inputs
Usernames == {"ann", "bob"}
Emails == {"a@x", "b@x"}
Passwords == {"pw"}
Contents == {"hi", "yo"}
ImageUrls == {<<>>, <<"https://pub/a.png">>}
FileNames == {"a.png", "b.png"}
Ids == 1..MaxId
None == <<>>

\* ------------------------------------------------------- configuration
EnvNames == {"DATABASE_URL", "OPENROUTER_API_KEY", "R2_ACCESS_KEY_ID",
             "R2_SECRET_ACCESS_KEY", "CLOUDFLARE_ACCOUNT_ID",
             "R2_BUCKET_NAME", "R2_PUBLIC_URL"}

\* the value a setting has when the environment provides one
EnvValue(n) ==
    CASE n = "R2_PUBLIC_URL" -> "https://pub"
      [] n = "R2_BUCKET_NAME" -> "bucket"
      [] OTHER -> "set"

\* os.getenv(n): None, the empty string, or the provided value
GetenvResults(n) == {None, <<"">>, <<EnvValue(n)>>}

VARIABLES
    env,          \* the seven module-level settings read by os.getenv
    pc,           \* position of the module's start-up code
    created,      \* process-wide objects constructed so far
    fk_enforced,  \* whether the backend behind DATABASE_URL enforces posts.author_id -> users.id
    users,        \* rows of table "users"
    posts,        \* rows of table "posts"
    user_seq,     \* last id assigned in "users"
    post_seq,     \* last id assigned in "posts"
    now,          \* server clock; one tick per handled request
    req,          \* the last request handled
    resp,         \* the response to it
    bucket,       \* put_object calls that reached the bucket, oldest first
    inflight      \* post requests suspended between their two statements

vars == <<env, pc, created, fk_enforced, users, posts, user_seq, post_seq,
          now, req, resp, bucket, inflight>>

dbvars == <<users, posts, user_seq, post_seq>>
bootvars == <<env, pc, created, fk_enforced>>

\* ------------------------------------------------------------ start-up
Truthy_is_not_none(v) == v # None

\* Python truthiness of an os.getenv result: None and "" are falsy
Truthy(v) == v # None /\ v[1] # ""

\* all([...]) over the seven settings
AllSet(e) == \A n \in EnvNames : Truthy(e[n])

NoRequest == [op |-> "none"]
NoResponse == [status |-> 0]

Init ==
    /\ env \in [EnvNames -> {None, <<"">>, <<"set">>, <<"bucket">>, <<"https://pub">>}]
    /\ \A n \in EnvNames : env[n] \in GetenvResults(n)
    /\ pc = "config"
    /\ created = {}
    /\ fk_enforced \in BOOLEAN
    /\ users = {}
    /\ posts = {}
    /\ user_seq = 0
    /\ post_seq = 0
    /\ now = 1
    /\ req = NoRequest
    /\ resp = NoResponse
    /\ bucket = <<>>
    /\ inflight = {}

Boot(from, to, obj) ==
    /\ pc = from
    /\ pc' = to
    /\ created' = created \cup obj
    /\ UNCHANGED <<env, fk_enforced, dbvars, now, req, resp, bucket, inflight>>

\* lines 28-29: raise ValueError unless every setting is truthy
ValidateConfig ==
    /\ pc = "config"
    /\ pc' = IF AllSet(env) THEN "validated" ELSE "failed"
    /\ UNCHANGED <<env, created, fk_enforced, dbvars, now, req, resp, bucket, inflight>>

CreateDatabase == Boot("validated", "database", {"database"})
CreateTables == Boot("database", "tables", {"tables"})
CreateR2Client == Boot("tables", "r2_client", {"r2_client"})
CreateOpenAIClient == Boot("r2_client", "openai_client", {"openai_client"})
startup == Boot("openai_client", "serving", {"connection"})

\* -------------------------------------------------------------- tables
UsersConstraints_email_not_unique(tbl) ==
    \A r1, r2 \in tbl :
        r1 # r2 => /\ r1.id # r2.id
                   /\ r1.username # r2.username

\* table "users": id primary key, username unique, email unique
UsersConstraints(tbl) ==
    \A r1, r2 \in tbl :
        r1 # r2 => /\ r1.id # r2.id
                   /\ r1.username # r2.username
                   /\ r1.email # r2.email

\* table "posts": id primary key, author_id declared ForeignKey("users.id")
PostsConstraints(utbl, ptbl) ==
    /\ \A p1, p2 \in ptbl : p1 # p2 => p1.id # p2.id
    /\ fk_enforced => \A p \in ptbl : \E u \in utbl : u.id = p.author_id

\* a statement commits only if the tables it leaves satisfy the schema;
\* otherwise database.execute raises and nothing is written
IntegrityOK(utbl, ptbl) == UsersConstraints(utbl) /\ PostsConstraints(utbl, ptbl)

UsersInsert_wrong_column(tbl, id, username, email, password) ==
    tbl \cup {[id |-> id, username |-> email, email |-> email,
               hashed_password |-> password]}

\* users.insert().values(username, email, hashed_password)
UsersInsert(tbl, id, username, email, password) ==
    tbl \cup {[id |-> id, username |-> username, email |-> email,
               hashed_password |-> password]}

\* users.update().where(users.c.id == id).values(...)
UsersUpdate(tbl, id, username, email, password) ==
    {IF r.id = id
       THEN [r EXCEPT !.username = username, !.email = email,
                      !.hashed_password = password]
       ELSE r : r \in tbl}

UsersDelete_no_where(tbl, id) == {}

\* users.delete().where(users.c.id == id)
UsersDelete(tbl, id) == {r \in tbl : r.id # id}

PostsInsert_drops_image(tbl, id, author_id, content, image_url, t) ==
    tbl \cup {[id |-> id, author_id |-> author_id, content |-> content,
               image_url |-> None, created_at |-> <<t>>]}

\* posts.insert().values(author_id, content, image_url); created_at defaults to now()
PostsInsert(tbl, id, author_id, content, image_url, t) ==
    tbl \cup {[id |-> id, author_id |-> author_id, content |-> content,
               image_url |-> image_url, created_at |-> <<t>>]}

PostsUpdate_no_where(tbl, id, author_id, content, image_url) ==
    {[r EXCEPT !.author_id = author_id, !.content = content,
               !.image_url = image_url] : r \in tbl}

\* posts.update().where(posts.c.id == id).values(author_id, content, image_url)
PostsUpdate(tbl, id, author_id, content, image_url) ==
    {IF r.id = id
       THEN [r EXCEPT !.author_id = author_id, !.content = content,
                      !.image_url = image_url]
       ELSE r : r \in tbl}

\* posts.delete().where(posts.c.id == id)
PostsDelete(tbl, id) == {r \in tbl : r.id # id}

\* database.fetch_one(table.select().where(table.c.id == id)): a row or None
FetchOne(tbl, id) ==
    IF \E r \in tbl : r.id = id
      THEN <<CHOOSE r \in tbl : r.id = id>>
      ELSE None

\* rows a delete statement removed
DeletedRows(before, after) == Cardinality(before) - Cardinality(after)

\* ----------------------------------------------------------- responses
\* response_model=User keeps id, username and email
UserOut(d) == [id |-> d.id, username |-> d.username, email |-> d.email]

\* response_model=Post; created_at leaves as a string
PostOut(r) ==
    [id |-> r.id, author_id |-> r.author_id, content |-> r.content,
     image_url |-> r.image_url, created_at |-> ToString(r.created_at[1])]

Ok(body) == [status |-> 200, body |-> body]
\* HTTPException(status_code=404, ...)
NotFound(detail) == [status |-> 404, detail |-> detail]
\* an exception no handler catches, or HTTPException(status_code=500, ...)
ServerError(detail) == [status |-> 500, detail |-> detail]

\* a Post endpoint returning the result of fetch_one: None does not
\* validate against response_model=Post
PostResponse(row) ==
    IF row = None \/ row[1].created_at = None
      THEN ServerError("ResponseValidationError")
      ELSE Ok(PostOut(row[1]))

\* a request is accepted: the clock ticks
Accept ==
    /\ pc = "serving"
    /\ now < MaxRequests + 1
    /\ now' = now + 1
    /\ UNCHANGED bootvars

\* a handler returns: request and response are recorded
Reply(r, rs) ==
    /\ req' = r
    /\ resp' = rs

\* one request is handled from start to end with no other request in between
Serve(r, rs) ==
    /\ Accept
    /\ Reply(r, rs)
    /\ UNCHANGED inflight

\* ------------------------------------------------------ user endpoints
create_user(username, email, password) ==
    LET id == user_seq + 1
        new == UsersInsert(users, id, username, email, password)
        ok == IntegrityOK(new, posts)
        r == [op |-> "create_user", username |-> username, email |-> email,
              password |-> password]
    IN  /\ Serve(r, IF ok
                      THEN Ok(UserOut([id |-> id, username |-> username,
                                       email |-> email, password |-> password]))
                      ELSE ServerError("IntegrityError"))
        /\ users' = IF ok THEN new ELSE users
        /\ user_seq' = IF ok THEN id ELSE user_seq
        /\ UNCHANGED <<posts, post_seq, bucket>>

read_users ==
    /\ Serve([op |-> "read_users"], Ok([items |-> {UserOut(u) : u \in users}]))
    /\ UNCHANGED <<dbvars, bucket>>

\* the response read_user gives for user_id on table tbl
ReadUserResult(tbl, user_id) ==
    LET user == FetchOne(tbl, user_id)
    IN  IF user = None THEN NotFound("User not found") ELSE Ok(UserOut(user[1]))

read_user(user_id) ==
    /\ Serve([op |-> "read_user", id |-> user_id], ReadUserResult(users, user_id))
    /\ UNCHANGED <<dbvars, bucket>>

update_user(user_id, username, email, password) ==
    LET new == UsersUpdate(users, user_id, username, email, password)
        ok == IntegrityOK(new, posts)
        r == [op |-> "update_user", id |-> user_id, username |-> username,
              email |-> email, password |-> password]
    IN  /\ Serve(r, IF ok
                      THEN Ok(UserOut([id |-> user_id, username |-> username,
                                       email |-> email, password |-> password]))
                      ELSE ServerError("IntegrityError"))
        /\ users' = IF ok THEN new ELSE users
        /\ UNCHANGED <<posts, user_seq, post_seq, bucket>>

delete_user(user_id) ==
    LET new == UsersDelete(users, user_id)
        ok == IntegrityOK(new, posts)
        r == [op |-> "delete_user", id |-> user_id]
    IN  /\ Serve(r, IF ~ok THEN ServerError("IntegrityError")
                    ELSE IF DeletedRows(users, new) = 0
                      THEN NotFound("User not found")
                      ELSE Ok([message |-> "User deleted successfully"]))
        /\ users' = IF ok THEN new ELSE users
        /\ UNCHANGED <<posts, user_seq, post_seq, bucket>>

\* ------------------------------------------------------ post endpoints
create_post(author_id, content, image_url) ==
    LET id == post_seq + 1
        new == PostsInsert(posts, id, author_id, content, image_url, now)
        ok == IntegrityOK(users, new)
        r == [op |-> "create_post", author_id |-> author_id, content |-> content,
              image_url |-> image_url]
    IN  /\ Serve(r, IF ok THEN PostResponse(FetchOne(new, id))
                          ELSE ServerError("IntegrityError"))
        /\ posts' = IF ok THEN new ELSE posts
        /\ post_seq' = IF ok THEN id ELSE post_seq
        /\ UNCHANGED <<users, user_seq, bucket>>

read_posts ==
    /\ Serve([op |-> "read_posts"],
             IF \E p \in posts : p.created_at = None
               THEN ServerError("ResponseValidationError")
               ELSE Ok([items |-> {PostOut(p) : p \in posts}]))
    /\ UNCHANGED <<dbvars, bucket>>

\* the response read_post gives for post_id on table tbl
ReadPostResult(tbl, post_id) ==
    LET post == FetchOne(tbl, post_id)
    IN  IF post = None THEN NotFound("Post not found") ELSE PostResponse(post)

read_post(post_id) ==
    /\ Serve([op |-> "read_post", id |-> post_id], ReadPostResult(posts, post_id))
    /\ UNCHANGED <<dbvars, bucket>>

update_post(post_id, author_id, content, image_url) ==
    LET new == PostsUpdate(posts, post_id, author_id, content, image_url)
        ok == IntegrityOK(users, new)
        r == [op |-> "update_post", id |-> post_id, author_id |-> author_id,
              content |-> content, image_url |-> image_url]
    IN  /\ Serve(r, IF ok THEN PostResponse(FetchOne(new, post_id))
                          ELSE ServerError("IntegrityError"))
        /\ posts' = IF ok THEN new ELSE posts
        /\ UNCHANGED <<users, user_seq, post_seq, bucket>>

delete_post(post_id) ==
    LET new == PostsDelete(posts, post_id)
        r == [op |-> "delete_post", id |-> post_id]
    IN  /\ Serve(r, IF DeletedRows(posts, new) = 0
                      THEN NotFound("Post not found")
                      ELSE Ok([message |-> "Post deleted successfully"]))
        /\ posts' = new
        /\ UNCHANGED <<users, user_seq, post_seq, bucket>>

\* ------------------------------------------------- external endpoints
read_root ==
    /\ Serve([op |-> "read_root"],
             Ok([message |-> "Welcome to the Social Media Backend!"]))
    /\ UNCHANGED <<dbvars, bucket>>

\* the chat-completion call either returns a text or raises
draft_post_with_ai(outcome) ==
    /\ Serve([op |-> "draft_post_with_ai", prompt |-> "launch"],
             IF outcome = "ok"
               THEN Ok([draft |-> "text"])
               ELSE ServerError("AI drafting failed"))
    /\ UNCHANGED <<dbvars, bucket>>

\* r2_client.put_object either stores the object or raises
PutOutcomes == {"ok", "NoCredentialsError", "Exception"}

ImageUrl_no_separator(base, file_name) == base \o file_name

\* f"{R2_PUBLIC_URL}/{file_name}"
ImageUrl(base, file_name) == base \o "/" \o file_name

upload_image_to_r2(file_name, outcome) ==
    LET r == [op |-> "upload_image_to_r2", filename |-> file_name]
    IN  /\ pc = "serving"
        /\ Serve(r, CASE outcome = "ok" ->
                           Ok([filename |-> file_name,
                               url |-> ImageUrl(env["R2_PUBLIC_URL"][1], file_name)])
                      [] outcome = "NoCredentialsError" ->
                           ServerError("R2 credentials not available.")
                      [] OTHER -> ServerError("Failed to upload image"))
        /\ bucket' = IF outcome = "ok"
                       THEN Append(bucket, [Bucket |-> env["R2_BUCKET_NAME"][1],
                                            Key |-> file_name])
                       ELSE bucket
        /\ UNCHANGED dbvars

\* ------------------------------------------------------- specification
Request ==
    \/ \E u \in Usernames, e \in Emails, p \in Passwords : create_user(u, e, p)
    \/ read_users
    \/ \E i \in Ids : read_user(i)
    \/ \E i \in Ids, u \in Usernames, e \in Emails, p \in Passwords :
           update_user(i, u, e, p)
    \/ \E i \in Ids : delete_user(i)
    \/ \E a \in Ids, c \in Contents, img \in ImageUrls : create_post(a, c, img)
    \/ read_posts
    \/ \E i \in Ids : read_post(i)
    \/ \E i \in Ids, a \in Ids, c \in Contents, img \in ImageUrls :
           update_post(i, a, c, img)
    \/ \E i \in Ids : delete_post(i)
    \/ read_root
    \/ \E o \in {"ok", "Exception"} : draft_post_with_ai(o)
    \/ \E f \in FileNames, o \in PutOutcomes : upload_image_to_r2(f, o)

Next ==
    \/ ValidateConfig
    \/ CreateDatabase
    \/ CreateTables
    \/ CreateR2Client
    \/ CreateOpenAIClient
    \/ startup
    \/ Request

Spec == Init /\ [][Next]_vars

\* ------------------------------------- requests suspended at an await
\* create_post up to its first await: the insert has run, the fetch has not
create_post_execute(author_id, content, image_url) ==
    LET id == post_seq + 1
        new == PostsInsert(posts, id, author_id, content, image_url, now)
        ok == IntegrityOK(users, new)
        r == [op |-> "create_post", author_id |-> author_id, content |-> content,
              image_url |-> image_url]
    IN  /\ Accept
        /\ Cardinality(inflight) < MaxInflight
        /\ posts' = IF ok THEN new ELSE posts
        /\ post_seq' = IF ok THEN id ELSE post_seq
        /\ IF ok THEN /\ inflight' = inflight \cup {[req |-> r, id |-> id]}
                      /\ UNCHANGED <<req, resp>>
                 ELSE /\ Reply(r, ServerError("IntegrityError"))
                      /\ UNCHANGED inflight
        /\ UNCHANGED <<users, user_seq, bucket>>

\* update_post up to its first await: the update has run, the fetch has not
update_post_execute(post_id, author_id, content, image_url) ==
    LET new == PostsUpdate(posts, post_id, author_id, content, image_url)
        ok == IntegrityOK(users, new)
        r == [op |-> "update_post", id |-> post_id, author_id |-> author_id,
              content |-> content, image_url |-> image_url]
    IN  /\ Accept
        /\ Cardinality(inflight) < MaxInflight
        /\ posts' = IF ok THEN new ELSE posts
        /\ IF ok THEN /\ inflight' = inflight \cup {[req |-> r, id |-> post_id]}
                      /\ UNCHANGED <<req, resp>>
                 ELSE /\ Reply(r, ServerError("IntegrityError"))
                      /\ UNCHANGED inflight
        /\ UNCHANGED <<users, user_seq, post_seq, bucket>>

\* the second statement of create_post / update_post and the return
post_fetch_one(f) ==
    /\ pc = "serving"
    /\ f \in inflight
    /\ inflight' = inflight \ {f}
    /\ Reply(f.req, PostResponse(FetchOne(posts, f.id)))
    /\ UNCHANGED <<bootvars, dbvars, now, bucket>>

NextConc ==
    \/ ValidateConfig
    \/ CreateDatabase
    \/ CreateTables
    \/ CreateR2Client
    \/ CreateOpenAIClient
    \/ startup
    \/ \E u \in Usernames, e \in Emails, p \in Passwords : create_user(u, e, p)
    \/ \E a \in Ids, c \in Contents, img \in ImageUrls : create_post_execute(a, c, img)
    \/ \E i \in Ids, a \in Ids, c \in Contents, img \in ImageUrls :
           update_post_execute(i, a, c, img)
    \/ \E f \in inflight : post_fetch_one(f)
    \/ \E i \in Ids : delete_post(i)

SpecConc == Init /\ [][NextConc]_vars

TypeOK ==
    /\ pc \in {"config", "failed", "validated", "database", "tables",
               "r2_client", "openai_client", "serving"}
    /\ now \in 1..(MaxRequests + 1)
    /\ user_seq \in 0..MaxRequests
    /\ post_seq \in 0..MaxRequests

\* ------------------------------------------------------------ claims
\* the step handles one request of kind op from start to end
Handled(op) == now' = now + 1 /\ req'.op = op

HasRow(tbl, id) == \E r \in tbl : r.id = id

\* C1: after a successful create_user that returned id i, read_user(i)
\* issued next returns a User with id i and the username and email that
\* were passed to create_user.
C1_CreateUserThenRead ==
    (req.op = "create_user" /\ resp.status = 200) =>
        LET rd == ReadUserResult(users, resp.body.id)
        IN  /\ rd.status = 200
            /\ rd.body.id = resp.body.id
            /\ rd.body.username = req.username
            /\ rd.body.email = req.email

C1_Witness ==
    /\ req.op = "create_user"
    /\ resp.status = 200
    /\ Cardinality(users) = 2

\* C2: an update_user or update_post whose id matches no stored row ends
\* in 404, never in a 200 carrying an updated row, and leaves both tables
\* unchanged.
C2_UpdateMissingIsNotFound ==
    [][ /\ (Handled("update_user") /\ ~HasRow(users, req'.id)
              => resp'.status = 404 /\ users' = users /\ posts' = posts)
        /\ (Handled("update_post") /\ ~HasRow(posts, req'.id)
              => resp'.status = 404 /\ users' = users /\ posts' = posts) ]_vars

\* C3 as stated: a delete of a missing id returns 404 and changes no
\* table; a delete of a stored id returns the confirmation and removes
\* exactly that row, so that a read of the same id returns 404.
DeleteMissing(op, tbl) ==
    Handled(op) /\ ~HasRow(tbl, req'.id)
        => resp'.status = 404 /\ users' = users /\ posts' = posts

DeleteStoredUser ==
    /\ resp'.status = 200
    /\ users' = users \ {r \in users : r.id = req'.id}
    /\ posts' = posts
    /\ ReadUserResult(users', req'.id).status = 404

DeleteStoredPost ==
    /\ resp'.status = 200
    /\ posts' = posts \ {r \in posts : r.id = req'.id}
    /\ users' = users
    /\ ReadPostResult(posts', req'.id).status = 404

C3_DeleteAsStated ==
    [][ /\ DeleteMissing("delete_user", users)
        /\ DeleteMissing("delete_post", posts)
        /\ (Handled("delete_user") /\ HasRow(users, req'.id) => DeleteStoredUser)
        /\ (Handled("delete_post") /\ HasRow(posts, req'.id) => DeleteStoredPost) ]_vars

\* C3 (amended): as above, except that a delete_user of a stored user
\* which the database rejects because a stored post still references the
\* user ends in 500 and changes no table.
Referenced(id) == fk_enforced /\ \E p \in posts : p.author_id = id

C3_Delete ==
    [][ /\ DeleteMissing("delete_user", users)
        /\ DeleteMissing("delete_post", posts)
        /\ (Handled("delete_user") /\ HasRow(users, req'.id) =>
              IF Referenced(req'.id)
                THEN resp'.status = 500 /\ users' = users /\ posts' = posts
                ELSE DeleteStoredUser)
        /\ (Handled("delete_post") /\ HasRow(posts, req'.id) => DeleteStoredPost) ]_vars

C3_Witness ==
    /\ req.op = "delete_user"
    /\ resp.status = 200
    /\ users # {}
    /\ posts # {}
    /\ user_seq = 2

\* C4: update_post(p) leaves every user row and every other post row as
\* it was, adds and removes no row, and keeps id and created_at of row p.
C4_UpdatePostFrame ==
    [][ Handled("update_post") =>
          /\ users' = users
          /\ {r.id : r \in posts'} = {r.id : r \in posts}
          /\ Cardinality(posts') = Cardinality(posts)
          /\ \A r \in posts : r.id # req'.id => r \in posts'
          /\ \A r \in posts : r.id = req'.id =>
                \E q \in posts' : q.id = r.id /\ q.created_at = r.created_at ]_vars

C4_Witness ==
    /\ req.op = "update_post"
    /\ resp.status = 200
    /\ users # {}
    /\ \E r \in posts : r.id # req.id /\ r.content # req.content

\* C5: no two stored users share a username or an email, and a
\* create_user or update_user that would make two do so fails and leaves
\* the users table unchanged.
UsersUnique ==
    \A r1, r2 \in users :
        r1.id # r2.id => r1.username # r2.username /\ r1.email # r2.email

Clash(id, username, email) ==
    \E r \in users : r.id # id /\ (r.username = username \/ r.email = email)

C5_UniqueUsers ==
    /\ []UsersUnique
    /\ [][ /\ (Handled("create_user") /\ Clash(0, req'.username, req'.email)
                 => resp'.status = 500 /\ users' = users)
           /\ (Handled("update_user") /\ HasRow(users, req'.id)
                 /\ Clash(req'.id, req'.username, req'.email)
                 => resp'.status = 500 /\ users' = users) ]_vars

C5_Witness ==
    /\ req.op = "update_user"
    /\ resp.status = 500
    /\ Cardinality(users) = 2

\* C6: the author_id of every stored post is the id of a stored user.
C6_AuthorExists == \A p \in posts : \E u \in users : u.id = p.author_id

\* C7: after a successful create_post that returned id p, read_post(p)
\* issued next returns a Post with the author_id, content and image_url
\* of the create request and a creation timestamp that is not null.
C7_CreatePostThenRead ==
    (req.op = "create_post" /\ resp.status = 200) =>
        LET rd == ReadPostResult(posts, resp.body.id)
        IN  /\ rd.status = 200
            /\ rd.body.author_id = req.author_id
            /\ rd.body.content = req.content
            /\ rd.body.image_url = req.image_url
            /\ \A r \in posts : r.id = resp.body.id => r.created_at # None

C7_Witness ==
    /\ req.op = "create_post"
    /\ resp.status = 200
    /\ req.image_url # None
    /\ Cardinality(posts) = 2

\* C8: with any of the seven settings absent or empty the process stops
\* at the configuration check, before any process-wide object exists and
\* before any request is served; with all seven present it does not stop.
Missing(n) == env[n] = None \/ env[n] = <<"">>

C8_FailFast ==
    pc # "config" =>
        IF \E n \in EnvNames : Missing(n)
          THEN pc = "failed" /\ created = {} /\ req = NoRequest /\ now = 1
          ELSE pc # "failed"

C8_Witness ==
    /\ pc = "failed"
    /\ env["R2_PUBLIC_URL"] = <<"">>
    /\ \A n \in EnvNames \ {"R2_PUBLIC_URL"} : ~Missing(n)

\* C9: a successful upload of a file named f writes exactly one object,
\* under key f, to the configured bucket and returns filename f and the
\* url <public base>/f; an upload whose write fails ends in 500 without url.
C9_Upload ==
    [][ Handled("upload_image_to_r2") =>
          IF resp'.status = 200
            THEN /\ Len(bucket') = Len(bucket) + 1
                 /\ SubSeq(bucket', 1, Len(bucket)) = bucket
                 /\ bucket'[Len(bucket')].Key = req'.filename
                 /\ bucket'[Len(bucket')].Bucket = "bucket"
                 /\ resp'.body.filename = req'.filename
                 /\ resp'.body.url = "https://pub/" \o req'.filename
            ELSE /\ bucket' = bucket
                 /\ resp'.status = 500
                 /\ "url" \notin DOMAIN resp'
                 /\ "body" \notin DOMAIN resp' ]_vars

C9_Witness ==
    /\ req.op = "upload_image_to_r2"
    /\ resp.status = 200
    /\ Len(bucket) = 2
    /\ bucket[1].Key = bucket[2].Key

\* C10: the Post returned by create_post or update_post carries the
\* author_id, content and image_url of that request, whatever other
\* request runs between the handler's write and its read.
C10_PostRequestAtomic ==
    (req.op \in {"create_post", "update_post"} /\ resp.status = 200) =>
        /\ resp.body.author_id = req.author_id
        /\ resp.body.content = req.content
        /\ resp.body.image_url = req.image_url

====
